---- MODULE Spec2Model ----
(***************************************************************************)
(* Model of the certificate renewal service of vos-ssh-dashboard           *)
(* (backend/src/certificate-renewal.ts, class                              *)
(* CertificateRenewalServiceImpl).                                         *)
(*                                                                         *)
(* The service is one process-wide object.  JavaScript runs each segment   *)
(* of code between two `await`s atomically, so every action below is one   *)
(* such segment of renewCertificate / performRenewal: it resumes the task  *)
(* of renewal r from the await it is parked on, runs to the next await,    *)
(* and parks it there (pc[r]).  Segments of different renewals and calls   *)
(* of renewCertificate interleave freely.  A run of awaits on collaborators *)
(* that touch none of the modelled state (the renewal log file, the ACME   *)
(* client, the DNS provider, the device, SSH) is part of one segment.      *)
(*                                                                         *)
(* The collaborators are the environment: the config store holds a record   *)
(* for the connection ids in KnownConnIds and answers getConnectionById    *)
(* with one of the records in configStore, the certificate store holds a   *)
(* reusable certificate for all but freshLeft of the renewals to come, the *)
(* status store may reject a write when storeRejects holds, callers make   *)
(* at most callsLeft accepted calls, and processEnv holds the environment  *)
(* variables of the process.  What a renewal does to the world outside the *)
(* service (calls to the authority, records at the DNS provider, files) is *)
(* recorded in effects, with the DNS adapter it called in dnsAdapter; the   *)
(* service's list of DNS record ids is dnsRecordIds.                       *)
(*                                                                         *)
(* Spec explores one renewal against every connection record whose DNS     *)
(* zone is at Cloudflare, with and without a reusable certificate, and a   *)
(* status store that may reject; SpecProviders explores every DNS provider *)
(* for the vos connections that restart their service; SpecUpload explores *)
(* the upload of a certificate and its chain's CA certificates to a device *)
(* on its own (trustUpload), over PEM texts of at most MaxPemLen           *)
(* characters; SpecStored explores getRenewalStatus over the rows a status *)
(* store can hold when the process starts; SpecChallenges explores the     *)
(* loop over an order's DNS challenges and the clean-up of its records on  *)
(* its own (challenges, and the TXT records of the zone in txtRecords),    *)
(* and SpecSharedFqdn two such loops of renewals of one FQDN;              *)
(* SpecAccepting is the same with a status store that accepts every write; *)
(* SpecConcurrent explores MaxRenewals renewals racing on ConnIds, each of  *)
(* a vos connection, at most MaxFresh of them issuing a new certificate.   *)
(* SpecCancellable and SpecRestart add the two operations the source of    *)
(* the service does not contain and the specification describes: a caller  *)
(* cancelling a renewal, and the process being restarted; SpecRestart also *)
(* has the callers of getRenewalStatus.                                    *)
(***************************************************************************)
EXTENDS Integers, Sequences, FiniteSets, TLC

\* Number of renewCertificate calls that create a RenewalStatus under
\* SpecConcurrent.
MaxRenewals == 3

\* Number of renewals under SpecConcurrent that find no reusable certificate.
MaxFresh == 1

\* Length of a PEM text, in characters.
MaxPemLen == 2

\* Number of CA certificates in a chain, and of trust certificates a device
\* lists.
MaxCaCerts == 2
MaxDeviceCerts == 1

\* Number of identifiers of an order: the FQDN and the alt names.
MaxIdentifiers == 3

\* Connection ids the callers use.
ConnIds == {1, 2}

\* Connection ids for which the config store holds a record: for the others
\* database.getConnectionById resolves to nothing.
KnownConnIds == {1}

RenewalIds == 1..MaxRenewals

VARIABLES
  renewalStatuses,   \* Map<string, RenewalStatus>: renewal id -> record, NoStatus when absent
  activeRenewals,    \* Set<number>: connection ids with a renewal in progress
  dbRenewalStatus,   \* rows written by database.saveRenewalStatus: renewal id -> row
  pc,                \* the await each renewal's call/task is parked on
  connection,        \* performRenewal's local `connection` of each task
  existingCert,      \* performRenewal's local `existingCert` (truthy or not) of each task
  lastCall,          \* the renewCertificate call the step just taken rejected with
                     \* AlreadyActive, NoCall when it rejected none
  configStore,       \* environment: the connection records getConnectionById can return
  freshLeft,         \* environment: renewals that may still find no reusable
                     \* certificate stored
  storeRejects,      \* environment: whether saveRenewalStatus may reject
  callsLeft,         \* environment: accepted renewCertificate calls still to come
  cancelRequested,   \* environment: renewals whose cancellation a caller has asked for
  processEnv,        \* environment: process.env, the variables the renewal reads
  dnsRecordIds,      \* string[]: the DNS record ids stored for cleanup, each with the
                     \* renewal that pushed it
  dnsAdapter,        \* the DNS provider whose adapter each renewal has called, "none"
                     \* when it has called none
  lastQuery,         \* the getRenewalStatus call just made: the id it asked for and
                     \* what it returned; NoQuery when the step was no such call
  effects,           \* the calls each renewal has made that change the world outside
  trustUpload,       \* one uploadCertificateToCUCM call after its leaf upload: the CA
                     \* certificates, the device's answer and what the call has done
  txtRecords,        \* the TXT records at the DNS provider: name, and the renewal and
                     \* challenge whose value it holds (0 for a stale record)
  challenges         \* the loop over order.challenges of each renewal: where it is,
                     \* the challenge it is at, what the challenge URLs name
                     \* the service: the authority, the DNS provider, the files

env == <<configStore, freshLeft, storeRejects, callsLeft, cancelRequested,
         processEnv>>

vars == <<renewalStatuses, activeRenewals, dbRenewalStatus, pc, connection,
          existingCert, lastCall, configStore, freshLeft, storeRejects,
          callsLeft, cancelRequested, processEnv, dnsRecordIds, dnsAdapter,
          lastQuery, effects, trustUpload, txtRecords, challenges>>

\* The DNS challenge loops and the zone they work on.
zone == <<txtRecords, challenges>>

\* The state of the renewals.
renewals == <<renewalStatuses, activeRenewals, dbRenewalStatus, pc, connection,
              existingCert, lastCall, env, dnsRecordIds, dnsAdapter, lastQuery,
              effects>>

----------------------------------------------------------------------------
\* Values

NoStatus == [id |-> 0]
NoRow == [connectionId |-> 0, status |-> "none", message |-> "", error |-> "",
          logs |-> <<>>]
NoConnection == [application_type |-> "none"]
NoCall == [connectionId |-> 0, result |-> "none"]
NoQuery == [id |-> 0]

\* The characters of a PEM text: one of its body, one of white space.
Chars == {"a", " "}
WhiteSpace == {" "}

\* The texts of at most n characters.
Texts(n) == UNION {[1..k -> Chars] : k \in 0..n}

\* The sequences of at most n elements of S.
SeqsUpTo(S, n) == UNION {[1..k -> S] : k \in 0..n}

\* String.prototype.trim: the text without the white space at its ends.
RECURSIVE trim(_)
trim(s) ==
  IF s = <<>> THEN s
  ELSE IF Head(s) \in WhiteSpace THEN trim(Tail(s))
  ELSE IF s[Len(s)] \in WhiteSpace THEN trim(SubSeq(s, 1, Len(s) - 1))
  ELSE s

\* uploadCertificateToCUCM: the certificates parsed from the chain are trimmed
\* parts closed by their END line, so no white space is at their ends.
ParsedCertificates(n) == {t \in Texts(n) : t # <<>> /\ trim(t) = t}

\* The answers to the GET of the device's trust certificates: the status code
\* with the certificates of a body that parses, a body that does not parse, or
\* an error of the request.
TrustResponses ==
  [kind : {"200"}, certificates : SeqsUpTo(Texts(MaxPemLen), MaxDeviceCerts)]
    \cup [kind : {"404", "unparsable", "error"}, certificates : {<<>>}]

\* The status codes of the device's answers to the POSTs of certificates.
StatusCodes == {200, 201, 500}
Uploaded == {200, 201}

\* leaf and trust are the status codes the POSTs of the identity certificate
\* and of the trust certificates were answered with, 0 before the answer;
\* status is the status of the renewal that uploads.
NoUpload ==
  [pc |-> "idle", certificates |-> <<>>,
   response |-> [kind |-> "error", certificates |-> <<>>],
   existingCerts |-> <<>>, certsToUpload |-> <<>>, posted |-> FALSE,
   leaf |-> 0, trust |-> 0, status |-> "uploading_certificate"]

AlreadyActive == "A certificate renewal is already in progress for this connection"

\* The values of dns_provider, and those createDNSRecordForValidation has an
\* adapter for.
DnsProviders == {"cloudflare", "digitalocean", "route53", "azure", "google", "custom"}
CnameProviders == DnsProviders \ {"custom"}

\* The connection records a config store can hold.
ConnectionRecords ==
  [application_type : {"vos", "general"},
   ssl_provider : {"letsencrypt", "zerossl", "other"},
   dns_provider : DnsProviders,
   enable_ssh : BOOLEAN,
   auto_restart_service : BOOLEAN]

\* The connection records whose DNS zone is at Cloudflare.
CloudflareRecords == {c \in ConnectionRecords : c.dns_provider = "cloudflare"}

\* The vos connection records that open SSH and restart their service.
RestartingRecords ==
  {c \in ConnectionRecords :
     c.application_type = "vos" /\ c.enable_ssh /\ c.auto_restart_service}

\* A vos connection that uses Let's Encrypt and restarts its service.
VosConnection ==
  [application_type |-> "vos", ssl_provider |-> "letsencrypt",
   dns_provider |-> "cloudflare", enable_ssh |-> TRUE, auto_restart_service |-> TRUE]

\* The values of LETSENCRYPT_STAGING and LETSENCRYPT_CLEANUP_DNS.
ProcessEnvs ==
  [LETSENCRYPT_STAGING : {"true", "false"},
   LETSENCRYPT_CLEANUP_DNS : {"true", "false"}]

\* A production process.
ProductionEnv ==
  [LETSENCRYPT_STAGING |-> "false", LETSENCRYPT_CLEANUP_DNS |-> "false"]

\* process.env.LETSENCRYPT_STAGING !== 'false'
isStaging == processEnv.LETSENCRYPT_STAGING # "false"

\* The renewal makes the calls `calls` to the authority, the DNS provider or
\* the file system.
\* The files of a domain: those of the domain's directory <accountsDir>/<fqdn>/
\* and those of its environment directory <accountsDir>/<fqdn>/<staging|prod>/.
DomainDirFile(name) == "<fqdn>/" \o name
EnvDirFile(name) == "<fqdn>/<env>/" \o name

\* accountManager.saveCertificate(domain, domainCert, ''): the domain
\* certificate is written to the environment directory.
saveCertificate == {EnvDirFile("certificate.pem")}

\* saveCertificateFiles: the files written after accountManager.saveCertificate.
chainFiles == {DomainDirFile("chain.pem"), DomainDirFile("fullchain.pem")}

\* getExistingCertificate: the files the reusability check reads.
existingCertificateFiles == {EnvDirFile("fullchain.pem"), EnvDirFile("certificate.pem")}

\* The calls that go to a DNS provider's adapter.
DnsCalls == {"dns_purge", "dns_create", "dns_create_cname", "dns_delete"}

\* The provider whose adapter a renewal calls: requestLetsEncryptCertificate
\* creates the Cloudflare adapter, requestZeroSSLCertificate the adapter of the
\* connection's dns_provider.
dnsProviderUsed(r) ==
  IF connection[r].ssl_provider = "letsencrypt"
    THEN "cloudflare"
    ELSE connection[r].dns_provider

Effect(r, calls) ==
  /\ effects' = [effects EXCEPT ![r] = @ \cup calls]
  /\ dnsAdapter' =
       IF calls \cap DnsCalls = {}
         THEN dnsAdapter
         ELSE [dnsAdapter EXCEPT ![r] = dnsProviderUsed(r)]
  /\ dnsRecordIds' =
       IF "dns_create_cname" \in calls THEN Append(dnsRecordIds, r) ELSE dnsRecordIds
  /\ lastQuery' = NoQuery
  /\ UNCHANGED <<trustUpload, zone>>

\* The step makes no such call.
NoEffect ==
  /\ UNCHANGED <<effects, dnsAdapter, dnsRecordIds, trustUpload, zone>>
  /\ lastQuery' = NoQuery

\* The answers of the status store to a write.
StoreAnswers == IF storeRejects THEN BOOLEAN ELSE {TRUE}

Terminal == {"completed", "failed"}

Exists(r) == renewalStatuses[r].id # 0

NonTerminal(r) == Exists(r) /\ renewalStatuses[r].status \notin Terminal

\* The fresh id crypto.randomUUID() returns: an id no record uses yet.
FreshId ==
  CHOOSE r \in RenewalIds : pc[r] = "unused" /\ \A q \in 1..(r-1) : pc[q] # "unused"

----------------------------------------------------------------------------
\* getProgressForStatus: the table used when a record is rebuilt from the store.
getProgressForStatus(status) ==
  CASE status = "pending" -> 0
    [] status = "generating_csr" -> 10
    [] status = "creating_account" -> 15
    [] status = "requesting_certificate" -> 20
    [] status = "creating_dns_challenge" -> 30
    [] status = "waiting_dns_propagation" -> 50
    [] status = "completing_validation" -> 70
    [] status = "downloading_certificate" -> 80
    [] status = "uploading_certificate" -> 90
    [] status = "completed" -> 100
    [] status = "failed" -> 0
    [] OTHER -> 0

\* updateStatus taking the progress from the table instead of its argument.
updateStatusFromTable(status, newStatus, message, progress) ==
  [status EXCEPT !.status = newStatus,
                 !.message = message,
                 !.progress = getProgressForStatus(newStatus),
                 !.logs = Append(@, message)]

\* updateStatus, its synchronous part: the fields it assigns and the log line.
updateStatus(status, newStatus, message, progress) ==
  [status EXCEPT !.status = newStatus,
                 !.message = message,
                 !.progress = progress,
                 !.logs = Append(@, message)]

\* status.logs.push(line) for each line of `lines`, in order.
PushLogs(status, lines) == [status EXCEPT !.logs = @ \o lines]

\* A catch block that records the error without the 'ERROR: ' log line.
CatchErrorUnlogged(status, message) ==
  [status EXCEPT !.status = "failed",
                 !.error = message,
                 !.message = "Certificate renewal failed",
                 !.endTime = TRUE]

\* The catch block of performRenewal.
CatchError(status, message) ==
  [status EXCEPT !.status = "failed",
                 !.error = message,
                 !.message = "Certificate renewal failed",
                 !.endTime = TRUE,
                 !.logs = Append(@, "ERROR: " \o message)]

\* database.saveRenewalStatus(id, connectionId, status, _, message, error, logs)
\* as awaited by updateStatus: a rejection is caught and logged, the row is
\* then left as it was.
saveRenewalStatus(r, accepted) ==
  IF accepted
    THEN [dbRenewalStatus EXCEPT ![r] =
           [connectionId |-> renewalStatuses[r].connectionId,
            status |-> renewalStatuses[r].status,
            message |-> renewalStatuses[r].message,
            error |-> renewalStatuses[r].error,
            logs |-> renewalStatuses[r].logs]]
    ELSE dbRenewalStatus

----------------------------------------------------------------------------
\* How a segment of performRenewal ends.

\* The segment resumes from the awaited save (accepted by the store or not),
\* pushes `lines`, calls updateStatus and parks on that call's save.
Continue(r, accepted, lines, newStatus, message, progress, nextPc) ==
  /\ lastCall' = NoCall
  /\ dbRenewalStatus' = saveRenewalStatus(r, accepted)
  /\ renewalStatuses' = [renewalStatuses EXCEPT
        ![r] = updateStatus(PushLogs(@, lines), newStatus, message, progress)]
  /\ pc' = [pc EXCEPT ![r] = nextPc]
  /\ UNCHANGED <<activeRenewals, connection, existingCert, env>>

\* The finally block of performRenewal, after which its promise settles and
\* the .finally callback registered by renewCertificate is queued.
Settle(r) ==
  /\ activeRenewals' = activeRenewals \ {renewalStatuses[r].connectionId}
  /\ pc' = [pc EXCEPT ![r] = "settled"]
  /\ connection' = [connection EXCEPT ![r] = NoConnection]
  /\ existingCert' = [existingCert EXCEPT ![r] = FALSE]
  /\ lastCall' = NoCall
  /\ UNCHANGED env

\* The segment throws: catch block, then finally block.
Throw(r, accepted, lines, message) ==
  /\ dbRenewalStatus' = saveRenewalStatus(r, accepted)
  /\ renewalStatuses' = [renewalStatuses EXCEPT
        ![r] = CatchError(PushLogs(@, lines), message)]
  /\ Settle(r)

\* handleServiceRestart reporting the restart under a state of its own.
handleServiceRestartOwnState(r, accepted, lines) ==
  IF ~connection[r].enable_ssh \/ ~connection[r].auto_restart_service
    THEN Continue(r, accepted, lines, "completed",
                  "Certificate renewal completed successfully", 100, "completed")
    ELSE Continue(r, accepted, lines \o <<"Restarting Cisco Tomcat service">>,
                  "restarting_service",
                  "Restarting Cisco Tomcat service via SSH", 95, "restart")

\* handleServiceRestart that restarts the service of every connection.
handleServiceRestartUnconditional(r, accepted, lines) ==
  Continue(r, accepted, lines \o <<"Restarting Cisco Tomcat service">>,
           "uploading_certificate",
           "Restarting Cisco Tomcat service via SSH", 95, "restart")

\* handleServiceRestart up to its first await, and what follows it when it
\* returns at once: the 'completed' update of performRenewal.
handleServiceRestart(r, accepted, lines) ==
  IF ~connection[r].enable_ssh \/ ~connection[r].auto_restart_service
    THEN Continue(r, accepted, lines, "completed",
                  "Certificate renewal completed successfully", 100, "completed")
    ELSE Continue(r, accepted, lines \o <<"Restarting Cisco Tomcat service">>,
                  "uploading_certificate",
                  "Restarting Cisco Tomcat service via SSH", 95, "restart")

----------------------------------------------------------------------------
\* renewCertificate, up to its await of the first save.
renewCertificate(c) ==
  IF c \in activeRenewals
    THEN /\ lastCall' = [connectionId |-> c, result |-> AlreadyActive]
         /\ UNCHANGED <<renewalStatuses, activeRenewals, dbRenewalStatus, pc,
                        connection, existingCert, env>>
         /\ NoEffect
    ELSE /\ callsLeft > 0
         /\ callsLeft' = callsLeft - 1
         /\ LET renewalId == FreshId IN
              /\ renewalStatuses' = [renewalStatuses EXCEPT ![renewalId] =
                    [id |-> renewalId,
                     connectionId |-> c,
                     status |-> "pending",
                     message |-> "Starting certificate renewal process",
                     progress |-> 0,
                     endTime |-> FALSE,
                     error |-> "",
                     manualDNSEntry |-> FALSE,
                     logs |-> <<>>]]
              /\ activeRenewals' = activeRenewals \cup {c}
              /\ pc' = [pc EXCEPT ![renewalId] = "saveRenewalStatus"]
         /\ lastCall' = NoCall
         /\ UNCHANGED <<dbRenewalStatus, connection, existingCert,
                        configStore, freshLeft, storeRejects, cancelRequested,
                        processEnv>>
         /\ NoEffect

\* renewCertificate after its await of the first save.  A rejected save makes
\* the call throw before performRenewal is started; otherwise performRenewal
\* runs to its await of getConnectionById and the call returns the status.
renewCertificateResume(r) ==
  /\ pc[r] = "saveRenewalStatus"
  /\ NoEffect
  /\ \E accepted \in StoreAnswers :
       /\ dbRenewalStatus' = saveRenewalStatus(r, accepted)
       /\ pc' = [pc EXCEPT ![r] = IF accepted THEN "getConnectionById" ELSE "rejected"]
       /\ lastCall' = NoCall
  /\ UNCHANGED <<renewalStatuses, activeRenewals, connection, existingCert, env>>

\* performRenewal: getConnectionById resolves.
getConnectionById(r) ==
  /\ pc[r] = "getConnectionById"
  /\ NoEffect
  /\ \/ /\ renewalStatuses[r].connectionId \notin KnownConnIds
        /\ dbRenewalStatus' = dbRenewalStatus
        /\ renewalStatuses' = [renewalStatuses EXCEPT
              ![r] = CatchError(@, "Connection not found")]
        /\ Settle(r)
     \/ \E conn \in configStore :
          /\ renewalStatuses[r].connectionId \in KnownConnIds
          /\ connection' = [connection EXCEPT ![r] = conn]
          /\ pc' = [pc EXCEPT ![r] = "getExistingCertificate"]
          /\ lastCall' = NoCall
          /\ UNCHANGED <<renewalStatuses, activeRenewals, dbRenewalStatus,
                         existingCert, env>>

\* performRenewal going on to the CSR although a certificate was found.
getExistingCertificateNoReturn(r) ==
  /\ pc[r] = "getExistingCertificate"
  /\ \E found \in BOOLEAN :
       /\ found \/ freshLeft > 0
       /\ freshLeft' = IF found THEN freshLeft ELSE freshLeft - 1
       /\ existingCert' = [existingCert EXCEPT ![r] = found]
       /\ renewalStatuses' = [renewalStatuses EXCEPT ![r] =
            updateStatus(@, "generating_csr",
                         "Generating CSR from VOS application API", 10)]
       /\ pc' = [pc EXCEPT ![r] = "generating_csr"]
  /\ lastCall' = NoCall
  /\ UNCHANGED <<activeRenewals, dbRenewalStatus, connection, configStore,
                 storeRejects, callsLeft, cancelRequested, processEnv>>
  /\ NoEffect

\* performRenewal: getExistingCertificate resolves (it never throws).
getExistingCertificate(r) ==
  /\ pc[r] = "getExistingCertificate"
  /\ \E found \in BOOLEAN :
       /\ found \/ freshLeft > 0
       /\ freshLeft' = IF found THEN freshLeft ELSE freshLeft - 1
       /\ existingCert' = [existingCert EXCEPT ![r] = found]
       /\ renewalStatuses' = [renewalStatuses EXCEPT ![r] =
            IF found
              THEN IF connection[r].application_type = "general"
                     THEN updateStatus(@, "uploading_certificate",
                            "Existing certificate available for download", 80)
                     ELSE updateStatus(@, "uploading_certificate",
                            "Using existing valid certificate", 80)
              ELSE IF connection[r].application_type = "general"
                     THEN updateStatus(@, "generating_csr",
                            "Processing custom CSR for general application", 10)
                     ELSE updateStatus(@, "generating_csr",
                            "Generating CSR from VOS application API", 10)]
       /\ pc' = [pc EXCEPT ![r] = IF found THEN "reuse" ELSE "generating_csr"]
  /\ lastCall' = NoCall
  /\ UNCHANGED <<activeRenewals, dbRenewalStatus, connection, configStore,
                 storeRejects, callsLeft, cancelRequested, processEnv>>
  /\ NoEffect

\* performRenewal, the branch that reuses the existing certificate.
reuseExistingCertificate(r) ==
  /\ pc[r] = "reuse"
  /\ NoEffect
  /\ \E accepted \in StoreAnswers :
       IF connection[r].application_type = "general"
         THEN handleServiceRestart(r, accepted, <<"Existing valid certificate available">>)
         ELSE \/ handleServiceRestart(r, accepted, <<"Leaf certificate uploaded successfully">>)
              \/ Throw(r, accepted, <<>>, "Leaf certificate upload failed")

\* generateCSRFromCUCM that asks the device for a CSR whether one is stored or
\* not.
generateCSRFromCUCMAlways(r, accepted) ==
  \E existingCSR \in BOOLEAN :
    \/ \E message \in {"CSR API returned status", "CSR generation failed"} :
         /\ Throw(r, accepted, <<>>, message)
         /\ Effect(r, {"csr_endpoint"})
    \/ /\ Continue(r, accepted,
            <<IF existingCSR THEN "Using existing CSR" ELSE "CSR generated successfully">>,
            "requesting_certificate",
            "Requesting certificate from Let's Encrypt", 20, "requesting_certificate")
       /\ Effect(r, {"csr_endpoint", "csr"})

\* generateCSRFromCUCM, and the 'requesting_certificate' update that follows
\* it: the CSR stored for the FQDN is used; or the device's CSR endpoint is
\* called, and it answers with a status other than 200, or the request fails,
\* or it answers with a CSR, which is saved.
generateCSRFromCUCM(r, accepted) ==
  \/ /\ Continue(r, accepted, <<"Using existing CSR">>,
                 "requesting_certificate",
                 "Requesting certificate from Let's Encrypt", 20, "requesting_certificate")
     /\ NoEffect
  \/ \E message \in {"CSR API returned status", "CSR generation failed"} :
       /\ Throw(r, accepted, <<>>, message)
       /\ Effect(r, {"csr_endpoint"})
  \/ /\ Continue(r, accepted, <<"CSR generated successfully">>,
                 "requesting_certificate",
                 "Requesting certificate from Let's Encrypt", 20, "requesting_certificate")
     /\ Effect(r, {"csr_endpoint", "csr"})

\* performRenewal: step 1, obtaining the CSR (which saves the CSR, and the
\* private key found with it, unless a stored CSR is used), then the first
\* 'requesting_certificate' update.
generateCSR(r) ==
  /\ pc[r] = "generating_csr"
  /\ \E accepted \in StoreAnswers :
       IF connection[r].application_type = "general"
         THEN \/ /\ Throw(r, accepted, <<>>, "Custom CSR is required for general applications")
                 /\ NoEffect
              \/ /\ Throw(r, accepted, <<>>, "Valid CSR not found in custom CSR field")
                 /\ NoEffect
              \/ \E privateKey \in BOOLEAN :
                   /\ Continue(r, accepted,
                        <<"Using custom CSR for general application",
                          IF privateKey THEN "Private key found and saved"
                                        ELSE "No private key found in custom CSR">>,
                        "requesting_certificate",
                        "Requesting certificate from Let's Encrypt", 20,
                        "requesting_certificate")
                   /\ Effect(r, IF privateKey THEN {"csr", DomainDirFile("private_key.pem")}
                                              ELSE {"csr"})
         ELSE generateCSRFromCUCM(r, accepted)

\* requestCertificate: the dispatch on connection.ssl_provider, and the first
\* update of the provider's function.
requestCertificate(r) ==
  /\ pc[r] = "requesting_certificate"
  /\ NoEffect
  /\ \E accepted \in StoreAnswers :
       CASE connection[r].ssl_provider = "letsencrypt" ->
              Continue(r, accepted, <<>>, "creating_account",
                       "Setting up Let's Encrypt account", 20, "creating_account")
         [] connection[r].ssl_provider = "zerossl" ->
              \/ Throw(r, accepted, <<>>, "ZeroSSL provider not configured")
              \/ Continue(r, accepted, <<>>, "requesting_certificate",
                          "Creating ZeroSSL certificate request", 30, "order")
         [] OTHER ->
              Throw(r, accepted, <<>>, "Unsupported SSL provider")

\* An account step that goes on to the order without an account.
loadAccountOptional(r) ==
  /\ pc[r] = "creating_account"
  /\ \E accepted \in StoreAnswers :
       \E made \in {{}, {"acme_create_account"}, {"acme_account"},
                     {"acme_create_account", "acme_account"}} :
         /\ Continue(r, accepted, <<>>, "requesting_certificate",
                     "Requesting certificate from Let's Encrypt", 30, "order")
         /\ Effect(r, made)

\* requestLetsEncryptCertificate: the account of the FQDN is loaded
\* ("acme_account": the client has an account); when there is none, the
\* email of the settings is missing, or createAccount is called and fails, or
\* it makes the account.
loadAccount(r) ==
  /\ pc[r] = "creating_account"
  /\ \E accepted \in StoreAnswers :
       \/ /\ Throw(r, accepted, <<>>, "Let's Encrypt email not configured in settings")
          /\ NoEffect
       \/ /\ Throw(r, accepted, <<>>, "Failed to create Let's Encrypt account")
          /\ Effect(r, {"acme_create_account"})
       \/ \E made \in {{"acme_account"}, {"acme_create_account", "acme_account"}} :
            /\ Continue(r, accepted, <<>>, "requesting_certificate",
                        "Requesting certificate from Let's Encrypt", 30, "order")
            /\ Effect(r, made)

\* The order is created at the authority (acmeClient.requestCertificate or
\* zeroSSL.createCertificate).
createOrder(r) ==
  /\ pc[r] = "order"
  /\ Effect(r, {"acme_order"})
  /\ \E accepted \in StoreAnswers :
       \/ Throw(r, accepted, <<>>, "Certificate order failed")
       \/ IF connection[r].ssl_provider = "letsencrypt"
            THEN Continue(r, accepted, <<>>, "creating_dns_challenge",
                          "Setting up DNS challenges", 40, "creating_dns_challenge")
            ELSE Continue(r, accepted, <<"ZeroSSL certificate created">>,
                          "creating_dns_challenge",
                          "Setting up DNS validation", 40, "creating_dns_challenge")

\* The DNS records of the challenges are created: for Let's Encrypt the TXT
\* records of the name are purged and one is created per challenge, for
\* ZeroSSL one CNAME record per validation.  A call that fails ends the loop
\* with the records made so far left in place.
createDnsRecords(r) ==
  /\ pc[r] = "creating_dns_challenge"
  /\ \E accepted \in StoreAnswers :
       IF connection[r].ssl_provider = "letsencrypt"
         THEN \/ \E made \in {{}, {"dns_purge"}} :
                   /\ Throw(r, accepted, <<>>, "DNS record creation failed")
                   /\ Effect(r, made)
              \/ /\ Throw(r, accepted, <<"Created DNS TXT record">>,
                          "DNS record creation failed")
                 /\ Effect(r, {"dns_purge", "dns_create"})
              \/ /\ Continue(r, accepted, <<"Created DNS TXT record">>,
                             "waiting_dns_propagation",
                             "Waiting for DNS propagation", 50, "waiting_dns_propagation")
                 /\ Effect(r, {"dns_purge", "dns_create"})
         ELSE IF connection[r].dns_provider \notin CnameProviders
         THEN /\ Throw(r, accepted,
                       <<"Retrieved validation details", "Creating CNAME record">>,
                       "DNS provider not supported for ZeroSSL CNAME validation")
              /\ NoEffect
         ELSE \/ \E made \in {{}, {"dns_create_cname"}} :
                   /\ Throw(r, accepted, <<>>, "DNS record creation failed")
                   /\ Effect(r, made)
              \/ /\ Continue(r, accepted,
                             <<"Retrieved validation details", "Creating CNAME record">>,
                             "waiting_dns_propagation",
                             "Waiting for DNS propagation via MXToolbox", 50,
                             "waiting_dns_propagation")
                 /\ Effect(r, {"dns_create_cname"})

\* Propagation verification whose negative answer is passed over.
verifyDnsPropagationLenient(r) ==
  /\ pc[r] = "waiting_dns_propagation"
  /\ NoEffect
  /\ \E accepted \in StoreAnswers :
       \E isVerified \in BOOLEAN :
         Continue(r, accepted,
                  <<IF isVerified THEN "DNS propagation verified"
                                  ELSE "DNS propagation verification failed">>,
                  "completing_validation",
                  "Completing Let's Encrypt validation", 70,
                  "completing_validation")

\* Propagation of every record is verified.
verifyDnsPropagation(r) ==
  /\ pc[r] = "waiting_dns_propagation"
  /\ NoEffect
  /\ \E accepted \in StoreAnswers :
       IF connection[r].ssl_provider = "letsencrypt"
         THEN \/ Throw(r, accepted, <<>>, "DNS propagation verification failed")
              \/ Continue(r, accepted, <<"DNS propagation verified">>,
                          "completing_validation",
                          "Completing Let's Encrypt validation", 70,
                          "completing_validation")
         ELSE \/ Throw(r, accepted, <<>>, "DNS propagation failed")
              \/ Continue(r, accepted, <<"CNAME record verified">>,
                          "completing_validation",
                          "Triggering ZeroSSL validation", 70,
                          "completing_validation")

\* acmeClient.waitForOrderCompletion: the order is polled until it is valid,
\* which resolves, or invalid, which rejects.
waitForOrderCompletion == {"valid", "invalid"}

\* The challenges are completed and the order awaited, whatever state the
\* order ends in.
completeValidationUnpolled(r) ==
  /\ pc[r] = "completing_validation"
  /\ \E accepted \in StoreAnswers :
       \/ /\ Throw(r, accepted, <<>>, "Validation failed")
          /\ Effect(r, {"acme_challenge"})
       \/ \E order \in waitForOrderCompletion :
            /\ Effect(r, IF order = "valid" THEN {"acme_challenge", "acme_order_valid"}
                                            ELSE {"acme_challenge"})
            /\ IF connection[r].ssl_provider = "letsencrypt"
                 THEN Continue(r, accepted, <<>>, "downloading_certificate",
                               "Downloading certificate", 80, "downloading_certificate")
                 ELSE Continue(r, accepted, <<"Verification triggered">>,
                               "downloading_certificate",
                               "Waiting for certificate issuance", 80,
                               "downloading_certificate")

\* The challenges are completed (a call that rejects ends the renewal) and the
\* order is awaited: an order that ends invalid ends the renewal, a valid one
\* takes it to the download.
completeValidation(r) ==
  /\ pc[r] = "completing_validation"
  /\ \E accepted \in StoreAnswers :
       \/ /\ Throw(r, accepted, <<>>, "Validation failed")
          /\ Effect(r, {"acme_challenge"})
       \/ \E order \in waitForOrderCompletion :
            IF order = "invalid"
              THEN /\ Throw(r, accepted, <<>>, "Order is invalid")
                   /\ Effect(r, {"acme_challenge"})
              ELSE /\ Effect(r, {"acme_challenge", "acme_order_valid"})
                   /\ IF connection[r].ssl_provider = "letsencrypt"
                        THEN Continue(r, accepted, <<>>, "downloading_certificate",
                                      "Downloading certificate", 80,
                                      "downloading_certificate")
                        ELSE Continue(r, accepted, <<"Verification triggered">>,
                                      "downloading_certificate",
                                      "Waiting for certificate issuance", 80,
                                      "downloading_certificate")

\* The clean-up of the DNS records in requestLetsEncryptCertificate: the
\* records are deleted (a failed deletion is logged as a warning and passed
\* over), or the clean-up is skipped in staging mode.
DnsCleanups ==
  IF ~isStaging \/ processEnv.LETSENCRYPT_CLEANUP_DNS = "true"
    THEN {[lines |-> <<"Cleaned up DNS TXT record">>, calls |-> {"dns_delete"}],
          [lines |-> <<>>, calls |-> {}]}
    ELSE {[lines |-> <<"Skipped DNS cleanup in staging mode for debugging">>,
           calls |-> {}]}

\* performRenewal: the 'uploading_certificate' update of step 4.
uploadingCertificate(r, accepted, lines) ==
  IF connection[r].application_type = "general"
    THEN Continue(r, accepted, lines, "uploading_certificate",
                  "Certificate ready for download", 90, "uploading_certificate")
    ELSE Continue(r, accepted, lines, "uploading_certificate",
                  "Uploading certificate to VOS application", 90,
                  "uploading_certificate")

\* The order is finalized and the certificate downloaded; for Let's Encrypt
\* the DNS records are then cleaned up and the certificate files saved.  The
\* provider's function returns and performRenewal makes its
\* 'uploading_certificate' update.
downloadCertificate(r) ==
  /\ pc[r] = "downloading_certificate"
  /\ \E accepted \in StoreAnswers :
       \/ /\ Throw(r, accepted, <<>>, "Certificate download failed")
          /\ Effect(r, {"acme_finalize"})
       \/ /\ connection[r].ssl_provider = "letsencrypt"
          /\ \E cleanup \in DnsCleanups :
               \/ /\ Throw(r, accepted, cleanup.lines,
                           "No certificates found in response")
                  /\ Effect(r, {"acme_finalize"} \cup cleanup.calls)
               \/ /\ Throw(r, accepted, cleanup.lines,
                           "Certificate file write failed")
                  /\ Effect(r, {"acme_finalize"} \cup saveCertificate \cup cleanup.calls)
               \/ /\ uploadingCertificate(r, accepted,
                        cleanup.lines \o <<"Saved certificate files",
                                           "Certificate obtained from Let's Encrypt">>)
                  /\ Effect(r, {"acme_finalize"} \cup saveCertificate \cup chainFiles
                                \cup cleanup.calls)
       \/ /\ connection[r].ssl_provider # "letsencrypt"
          /\ uploadingCertificate(r, accepted,
                <<"ZeroSSL certificate downloaded successfully">>)
          /\ Effect(r, {"acme_finalize"})

\* performRenewal, general applications: the <fqdn>.crt and <fqdn>.key files
\* made of certificate.pem and private_key.pem of the environment directory.
\* The first is made when certificate.pem is there, which it is when this
\* renewal wrote it and may be when an earlier one did; the second when a
\* private_key.pem that is not blank is there, which no call of this renewal
\* writes.  A file operation that throws leaves a warning in the logs.
convenienceCopies(r) ==
  LET crts == IF saveCertificate \subseteq effects[r] THEN {TRUE} ELSE BOOLEAN
  IN  {[lines |-> (IF crt THEN <<"Created .crt file for ESXi import">> ELSE <<>>)
                    \o (IF key THEN <<"Created .key file for ESXi import">> ELSE <<>>),
        files |-> (IF crt THEN {EnvDirFile("<fqdn>.crt")} ELSE {})
                    \cup (IF key THEN {EnvDirFile("<fqdn>.key")} ELSE {})]
         : crt \in crts, key \in BOOLEAN}
      \cup {[lines |-> <<"Warning: Could not create CRT/KEY files">>, files |-> {}]}

\* performRenewal: step 4, installing the certificate, then handleServiceRestart.
installCertificate(r) ==
  /\ pc[r] = "uploading_certificate"
  /\ \E accepted \in StoreAnswers :
       IF connection[r].application_type = "general"
         THEN \E copies \in convenienceCopies(r) :
                /\ handleServiceRestart(r, accepted,
                     <<"Certificate generated and ready for manual installation">>
                       \o copies.lines)
                /\ Effect(r, copies.files)
         ELSE /\ NoEffect
              /\ \/ handleServiceRestart(r, accepted,
                      <<"Leaf certificate uploaded successfully">>)
                 \/ Throw(r, accepted, <<>>, "Leaf certificate upload failed")

\* handleServiceRestart whose failures are thrown.
restartServiceFatal(r) ==
  /\ pc[r] = "restart"
  /\ NoEffect
  /\ \E accepted \in StoreAnswers :
       \/ Continue(r, accepted, <<"Cisco Tomcat service restarted successfully">>,
                   "completed", "Certificate renewal completed successfully", 100,
                   "completed")
       \/ \E message \in {"SSH connection failed",
                           "Failed to restart Cisco Tomcat service",
                           "Error during service restart"} :
            Throw(r, accepted, <<>>, message)

\* handleServiceRestart after its update: the SSH test and restart command.
\* Every outcome is logged and none is thrown; performRenewal then makes its
\* 'completed' update.
restartService(r) ==
  /\ pc[r] = "restart"
  /\ NoEffect
  /\ \E accepted \in StoreAnswers :
       \E line \in {"Warning: SSH connection failed",
                    "Cisco Tomcat service restarted successfully",
                    "Failed to restart Cisco Tomcat service",
                    "Error during service restart"} :
         Continue(r, accepted, <<line>>, "completed",
                  "Certificate renewal completed successfully", 100, "completed")

\* performRenewal after the 'completed' update: endTime is set; the reuse
\* branch returns, the other goes on to the renewal log and the accounting.
setEndTime(r) ==
  /\ pc[r] = "completed"
  /\ NoEffect
  /\ \E accepted \in StoreAnswers :
       /\ dbRenewalStatus' = saveRenewalStatus(r, accepted)
       /\ renewalStatuses' = [renewalStatuses EXCEPT ![r].endTime = TRUE]
       /\ IF existingCert[r]
            THEN Settle(r)
            ELSE /\ pc' = [pc EXCEPT ![r] = "updateDatabaseWithRenewal"]
                 /\ lastCall' = NoCall
                 /\ UNCHANGED <<activeRenewals, connection, existingCert, env>>

\* updateDatabaseWithRenewal: database.updateConnection resolves, or its
\* error is rethrown into the catch block of performRenewal.
updateDatabaseWithRenewal(r) ==
  /\ pc[r] = "updateDatabaseWithRenewal"
  /\ NoEffect
  /\ \/ /\ UNCHANGED <<renewalStatuses, dbRenewalStatus>>
        /\ Settle(r)
     \/ /\ dbRenewalStatus' = dbRenewalStatus
        /\ renewalStatuses' = [renewalStatuses EXCEPT
              ![r] = CatchError(@, "Failed to update connection")]
        /\ Settle(r)

\* The .finally callback renewCertificate registered on performRenewal's promise.
finallyCallback(r) ==
  /\ pc[r] = "settled"
  /\ NoEffect
  /\ activeRenewals' = activeRenewals \ {renewalStatuses[r].connectionId}
  /\ pc' = [pc EXCEPT ![r] = "done"]
  /\ lastCall' = NoCall
  /\ UNCHANGED <<renewalStatuses, dbRenewalStatus, connection, existingCert, env>>

\* getRenewalStatus with every row reported as pending.
dbStatusAsPending(r) ==
  LET dbStatus == dbRenewalStatus[r] IN
    [id |-> r,
     connectionId |-> dbStatus.connectionId,
     status |-> "pending",
     message |-> dbStatus.message,
     progress |-> getProgressForStatus("pending"),
     endTime |-> TRUE,
     error |-> dbStatus.error,
     manualDNSEntry |-> FALSE,
     logs |-> dbStatus.logs]

\* getRenewalStatus: the RenewalStatus built from the row of the status store
\* (the store stamps updated_at on every write, so endTime is always set).
dbStatusToRenewalStatus(r) ==
  LET dbStatus == dbRenewalStatus[r] IN
    [id |-> r,
     connectionId |-> dbStatus.connectionId,
     status |-> dbStatus.status,
     message |-> dbStatus.message,
     progress |-> getProgressForStatus(dbStatus.status),
     endTime |-> TRUE,
     error |-> dbStatus.error,
     manualDNSEntry |-> FALSE,
     logs |-> dbStatus.logs]

\* getRenewalStatus that answers from the store without keeping the record.
getRenewalStatusUncached(r) ==
  /\ UNCHANGED <<effects, dnsAdapter, dnsRecordIds, trustUpload, zone>>
  /\ UNCHANGED renewalStatuses
  /\ lastQuery' =
       [id |-> r,
        result |-> IF Exists(r) THEN renewalStatuses[r]
                   ELSE IF dbRenewalStatus[r].status # "none"
                     THEN dbStatusToRenewalStatus(r)
                     ELSE NoStatus]
  /\ lastCall' = NoCall
  /\ UNCHANGED <<activeRenewals, dbRenewalStatus, pc, connection, existingCert, env>>

\* getRenewalStatus(renewalId): the record in memory, else the row of the
\* store, converted and cached in memory, else null.
getRenewalStatus(r) ==
  /\ UNCHANGED <<effects, dnsAdapter, dnsRecordIds, trustUpload, zone>>
  /\ renewalStatuses' =
       IF ~Exists(r) /\ dbRenewalStatus[r].status # "none"
         THEN [renewalStatuses EXCEPT ![r] = dbStatusToRenewalStatus(r)]
         ELSE renewalStatuses
  /\ lastQuery' =
       [id |-> r,
        result |-> IF Exists(r) THEN renewalStatuses[r]
                   ELSE IF dbRenewalStatus[r].status # "none"
                     THEN dbStatusToRenewalStatus(r)
                     ELSE NoStatus]
  /\ lastCall' = NoCall
  /\ UNCHANGED <<activeRenewals, dbRenewalStatus, pc, connection, existingCert, env>>

\* CancelRenewal(renewal_id): signals the cancellation token of a renewal that
\* is not terminal; repeating it changes nothing.
CancelRenewal(r) ==
  /\ NonTerminal(r)
  /\ cancelRequested' = [cancelRequested EXCEPT ![r] = TRUE]
  /\ lastCall' = NoCall
  /\ UNCHANGED <<renewalStatuses, activeRenewals, dbRenewalStatus, pc, connection,
                 existingCert, configStore, freshLeft, storeRejects, callsLeft,
                 processEnv>>
  /\ NoEffect

\* The process stops and starts again: every task is gone, the service object
\* is constructed anew with an empty status map and active set, and the
\* start-up recovery turns every non-terminal row of the store into failed.
ProcessRestart ==
  /\ \E r \in RenewalIds : pc[r] \notin {"unused", "gone"}
  /\ renewalStatuses' = [r \in RenewalIds |-> NoStatus]
  /\ activeRenewals' = {}
  /\ pc' = [r \in RenewalIds |-> IF pc[r] = "unused" THEN "unused" ELSE "gone"]
  /\ connection' = [r \in RenewalIds |-> NoConnection]
  /\ existingCert' = [r \in RenewalIds |-> FALSE]
  /\ cancelRequested' = [r \in RenewalIds |-> FALSE]
  /\ dbRenewalStatus' = [r \in RenewalIds |->
        IF dbRenewalStatus[r].status \in Terminal \cup {"none"}
          THEN dbRenewalStatus[r]
          ELSE [dbRenewalStatus[r] EXCEPT !.status = "failed",
                                          !.message = "interrupted"]]
  /\ lastCall' = NoCall
  /\ dnsRecordIds' = <<>>
  /\ lastQuery' = NoQuery
  /\ UNCHANGED <<configStore, freshLeft, storeRejects, callsLeft, processEnv,
                 effects, dnsAdapter, trustUpload, zone>>

----------------------------------------------------------------------------
\* The identifiers of an order, `domains`: 1 is the FQDN, the others are the
\* alt names.  Challenge i of order.challenges is the challenge of identifier i.
Identifiers == 1..MaxIdentifiers

\* What the URL of a challenge holds: the word 'identifier' and the name of
\* the challenge's domain, or neither.
ChallengeUrls == {"names_identifier", "opaque"}

NoChallengeLoop ==
  [pc |-> "idle", index |-> 0, count |-> 0, url |-> "opaque", dnsRecords |-> <<>>,
   attempts |-> 0]

NoChallenges ==
  /\ txtRecords = {}
  /\ challenges = [r \in RenewalIds |-> NoChallengeLoop]

\* requestLetsEncryptCertificate: the domain whose record is set up for the
\* challenge, domains[0] unless the URL names the identifier.
challengeDomain(r) ==
  IF challenges[r].url = "names_identifier" THEN challenges[r].index ELSE 1

\* cloudflare.cleanupTxtRecords(challengeDomain): the TXT records of the name
\* are deleted, whatever made them; or the call rejects.
cleanupTxtRecords(r) ==
  /\ challenges[r].pc = "cleanupTxtRecords"
  /\ \/ /\ txtRecords' = {rec \in txtRecords : rec.name # challengeDomain(r)}
        /\ challenges' = [challenges EXCEPT ![r].pc = "createTxtRecord"]
     \/ /\ challenges' = [challenges EXCEPT ![r].pc = "thrown"]
        /\ UNCHANGED txtRecords
  /\ UNCHANGED <<renewals, trustUpload>>

\* cloudflare.createTxtRecord(challengeDomain, dnsValue): the record of the
\* challenge is made and the loop goes to the next challenge, or the call
\* rejects.
createTxtRecord(r) ==
  /\ challenges[r].pc = "createTxtRecord"
  /\ \/ LET record == [name |-> challengeDomain(r), owner |-> r,
                        challenge |-> challenges[r].index]
        IN  /\ txtRecords' = txtRecords \cup {record}
            /\ challenges' = [challenges EXCEPT
                  ![r].dnsRecords = Append(@, record),
                  ![r].index = IF @ < challenges[r].count THEN @ + 1 ELSE @,
                  ![r].pc = IF challenges[r].index < challenges[r].count
                              THEN "cleanupTxtRecords" ELSE "waiting_dns_propagation"]
     \/ /\ challenges' = [challenges EXCEPT ![r].pc = "thrown"]
        /\ UNCHANGED txtRecords
  /\ UNCHANGED <<renewals, trustUpload>>

\* requestLetsEncryptCertificate from the propagation check to
\* finalizeCertificate: one of the calls rejects, or the certificate is had and
\* the clean-up of the records begins.
finalizeCertificate(r) ==
  /\ challenges[r].pc = "waiting_dns_propagation"
  /\ \/ challenges' = [challenges EXCEPT ![r].pc = "thrown"]
     \/ challenges' = [challenges EXCEPT
           ![r].pc = "deleteTxtRecord", ![r].index = 1]
  /\ UNCHANGED <<renewals, trustUpload, txtRecords>>

\* A clean-up that a failed deletion ends.
deleteTxtRecordFatal(r) ==
  /\ challenges[r].pc = "deleteTxtRecord"
  /\ LET record == challenges[r].dnsRecords[challenges[r].index]
         last == challenges[r].index = Len(challenges[r].dnsRecords)
     IN  \/ /\ record \in txtRecords
            /\ txtRecords' = txtRecords \ {record}
            /\ challenges' = [challenges EXCEPT
                  ![r].attempts = @ + 1,
                  ![r].index = IF last THEN @ ELSE @ + 1,
                  ![r].pc = IF last THEN "saveCertificateFiles" ELSE "deleteTxtRecord"]
         \/ /\ UNCHANGED txtRecords
            /\ challenges' = [challenges EXCEPT ![r].attempts = @ + 1,
                                                ![r].pc = "thrown"]
  /\ UNCHANGED <<renewals, trustUpload>>

\* The clean-up of requestLetsEncryptCertificate, one record of dnsRecords:
\* cloudflare.deleteTxtRecord(record.id) deletes the record, or rejects, which
\* is caught; the loop goes to the next record, and after the last to
\* saveCertificateFiles.
deleteTxtRecord(r) ==
  /\ challenges[r].pc = "deleteTxtRecord"
  /\ LET record == challenges[r].dnsRecords[challenges[r].index]
         last == challenges[r].index = Len(challenges[r].dnsRecords)
     IN  /\ \/ /\ record \in txtRecords
               /\ txtRecords' = txtRecords \ {record}
            \/ UNCHANGED txtRecords
         /\ challenges' = [challenges EXCEPT
               ![r].attempts = @ + 1,
               ![r].index = IF last THEN @ ELSE @ + 1,
               ![r].pc = IF last THEN "saveCertificateFiles" ELSE "deleteTxtRecord"]
  /\ UNCHANGED <<renewals, trustUpload>>

----------------------------------------------------------------------------
\* uploadLeafCertificate that resolves whatever the device answers.
uploadLeafCertificateUnchecked ==
  /\ trustUpload.pc = "uploadCertificateToCUCM"
  /\ \E statusCode \in StatusCodes :
       trustUpload' = [trustUpload EXCEPT !.leaf = statusCode,
                                          !.pc = "uploadLeafCertificate"]
  /\ UNCHANGED <<renewals, zone>>

\* uploadLeafCertificate: the POST of the identity certificate and its
\* answer; 200 or 201 resolves, anything else rejects, and with it the promise
\* of uploadCertificateToCUCM.
uploadLeafCertificate ==
  /\ trustUpload.pc = "uploadCertificateToCUCM"
  /\ \E statusCode \in StatusCodes :
       trustUpload' = [trustUpload EXCEPT
         !.leaf = statusCode,
         !.pc = IF statusCode \in Uploaded
                  THEN "uploadLeafCertificate" ELSE "leaf_rejected"]
  /\ UNCHANGED <<renewals, zone>>

\* uploadCertificateToCUCM after uploadLeafCertificate: uploadCaCertificates is
\* called when the chain has CA certificates.
uploadCertificateToCUCM ==
  /\ trustUpload.pc = "uploadLeafCertificate"
  /\ trustUpload' = [trustUpload EXCEPT
        !.pc = IF Len(trustUpload.certificates) > 0
                 THEN "getExistingTrustCertificates" ELSE "resolved"]
  /\ UNCHANGED <<renewals, zone>>

\* getExistingTrustCertificates: what the promise resolves with.
existingCerts(response) ==
  IF response.kind = "200"
    THEN [i \in 1..Len(response.certificates) |-> trim(response.certificates[i])]
    ELSE <<>>

\* getExistingTrustCertificates that rejects when the list cannot be had.
getExistingTrustCertificatesRejecting ==
  /\ trustUpload.pc = "getExistingTrustCertificates"
  /\ trustUpload' =
       IF trustUpload.response.kind = "200"
         THEN [trustUpload EXCEPT
                 !.existingCerts = existingCerts(trustUpload.response),
                 !.pc = "uploadCaCertificates"]
         ELSE [trustUpload EXCEPT !.pc = "rejected"]
  /\ UNCHANGED <<renewals, zone>>

\* uploadCaCertificates awaits getExistingTrustCertificates.
getExistingTrustCertificates ==
  /\ trustUpload.pc = "getExistingTrustCertificates"
  /\ trustUpload' = [trustUpload EXCEPT
        !.existingCerts = existingCerts(trustUpload.response),
        !.pc = "uploadCaCertificates"]
  /\ UNCHANGED <<renewals, zone>>

\* A filter that keeps every certificate.
certsToUploadAll(certificates, existing) == certificates

\* uploadCaCertificates: certificates.filter(c => !existingCerts.includes(c.trim())).
certsToUpload(certificates, existing) ==
  SelectSeq(certificates,
            LAMBDA c : \A i \in 1..Len(existing) : existing[i] # trim(c))

\* uploadCaCertificates after the list: nothing to upload and the promise
\* resolves, or the POST of the certificates to upload is written.
uploadCaCertificates ==
  /\ trustUpload.pc = "uploadCaCertificates"
  /\ LET toUpload == certsToUpload(trustUpload.certificates, trustUpload.existingCerts)
     IN  trustUpload' =
           IF Len(toUpload) = 0
             THEN [trustUpload EXCEPT !.pc = "resolved"]
             ELSE [trustUpload EXCEPT !.certsToUpload = toUpload,
                                      !.posted = TRUE,
                                      !.pc = "posted"]
  /\ UNCHANGED <<renewals, zone>>

\* The answer to the POST: 200 or 201 resolves, anything else rejects.
trustCertificatesPosted ==
  /\ trustUpload.pc = "posted"
  /\ \E statusCode \in StatusCodes :
       trustUpload' = [trustUpload EXCEPT
         !.trust = statusCode,
         !.pc = IF statusCode \in Uploaded THEN "resolved" ELSE "rejected"]
  /\ UNCHANGED <<renewals, zone>>

\* performRenewal after its await of uploadCertificateToCUCM: the promise
\* resolved and, handleServiceRestart never throwing, the renewal is
\* completed; or it rejected and the catch block fails the renewal.
performRenewalAfterUpload ==
  /\ trustUpload.pc \in {"resolved", "rejected", "leaf_rejected"}
  /\ trustUpload.status = "uploading_certificate"
  /\ trustUpload' = [trustUpload EXCEPT
        !.status = IF trustUpload.pc = "resolved" THEN "completed" ELSE "failed"]
  /\ UNCHANGED <<renewals, zone>>

----------------------------------------------------------------------------
Start ==
  /\ renewalStatuses = [r \in RenewalIds |-> NoStatus]
  /\ activeRenewals = {}
  /\ dbRenewalStatus = [r \in RenewalIds |-> NoRow]
  /\ pc = [r \in RenewalIds |-> "unused"]
  /\ connection = [r \in RenewalIds |-> NoConnection]
  /\ existingCert = [r \in RenewalIds |-> FALSE]
  /\ lastCall = NoCall
  /\ cancelRequested = [r \in RenewalIds |-> FALSE]
  /\ effects = [r \in RenewalIds |-> {}]
  /\ dnsRecordIds = <<>>
  /\ dnsAdapter = [r \in RenewalIds |-> "none"]
  /\ lastQuery = NoQuery

\* One renewal, any connection record, a status store that may reject.
Init ==
  /\ Start
  /\ trustUpload = NoUpload
  /\ NoChallenges
  /\ configStore = CloudflareRecords
  /\ freshLeft = 1
  /\ storeRejects = TRUE
  /\ callsLeft = 1
  /\ processEnv \in ProcessEnvs

\* One renewal, any connection record, a status store that accepts every write.
InitAccepting ==
  /\ Start
  /\ trustUpload = NoUpload
  /\ NoChallenges
  /\ configStore = CloudflareRecords
  /\ freshLeft = 1
  /\ storeRejects = FALSE
  /\ callsLeft = 1
  /\ processEnv \in ProcessEnvs

\* MaxRenewals renewals of a vos connection, of which all but MaxFresh find a
\* reusable certificate, and a status store that accepts.
InitConcurrent ==
  /\ Start
  /\ trustUpload = NoUpload
  /\ NoChallenges
  /\ configStore = {VosConnection}
  /\ freshLeft = MaxFresh
  /\ storeRejects = FALSE
  /\ callsLeft = MaxRenewals
  /\ processEnv = ProductionEnv

\* One renewal of a vos connection that restarts its service, with any
\* certificate authority and any DNS provider, in production, and a status
\* store that accepts.
InitProviders ==
  /\ Start
  /\ trustUpload = NoUpload
  /\ NoChallenges
  /\ configStore = RestartingRecords
  /\ freshLeft = 1
  /\ storeRejects = FALSE
  /\ callsLeft = 1
  /\ processEnv = ProductionEnv

\* One upload of a certificate and its chain's CA certificates to a device.
InitUpload ==
  /\ Start
  /\ configStore = {VosConnection}
  /\ freshLeft = 0
  /\ storeRejects = FALSE
  /\ callsLeft = 0
  /\ processEnv = ProductionEnv
  /\ NoChallenges
  /\ \E certificates \in SeqsUpTo(ParsedCertificates(MaxPemLen), MaxCaCerts),
        response \in TrustResponses :
       trustUpload = [NoUpload EXCEPT !.pc = "uploadCertificateToCUCM",
                                      !.certificates = certificates,
                                      !.response = response]

\* The values of RenewalStatus.status, which a row of the status store can hold.
RenewalStates ==
  {"pending", "generating_csr", "creating_account", "requesting_certificate",
   "creating_dns_challenge", "dns_validation", "waiting_dns_propagation",
   "waiting_manual_dns", "completing_validation", "downloading_certificate",
   "uploading_certificate", "completed", "failed"}

\* The rows of the status store a process can find when it starts.
StoredRows ==
  {NoRow} \cup {[NoRow EXCEPT !.connectionId = 1, !.status = s] : s \in RenewalStates}

\* A process that has just started on a status store holding rows of earlier
\* renewals, in any state, for the first two renewal ids; no renewal running.
InitStored ==
  /\ renewalStatuses = [r \in RenewalIds |-> NoStatus]
  /\ activeRenewals = {}
  /\ \E first \in StoredRows, second \in StoredRows :
       dbRenewalStatus = [r \in RenewalIds |->
                            IF r = 1 THEN first ELSE IF r = 2 THEN second ELSE NoRow]
  /\ pc = [r \in RenewalIds |-> IF dbRenewalStatus[r] = NoRow THEN "unused" ELSE "gone"]
  /\ connection = [r \in RenewalIds |-> NoConnection]
  /\ existingCert = [r \in RenewalIds |-> FALSE]
  /\ lastCall = NoCall
  /\ cancelRequested = [r \in RenewalIds |-> FALSE]
  /\ effects = [r \in RenewalIds |-> {}]
  /\ dnsRecordIds = <<>>
  /\ dnsAdapter = [r \in RenewalIds |-> "none"]
  /\ lastQuery = NoQuery
  /\ trustUpload = NoUpload
  /\ NoChallenges
  /\ configStore = {VosConnection}
  /\ freshLeft = 0
  /\ storeRejects = FALSE
  /\ callsLeft = 0
  /\ processEnv = ProductionEnv

NextStored == \E r \in RenewalIds : getRenewalStatus(r)

\* Orders of up to MaxIdentifiers identifiers whose DNS challenges the renewals in
\* `running` set up, all for the same FQDN, at a provider that may hold stale
\* records of these names.
InitZone(running) ==
  /\ Start
  /\ trustUpload = NoUpload
  /\ configStore = {VosConnection}
  /\ freshLeft = 0
  /\ storeRejects = FALSE
  /\ callsLeft = 0
  /\ processEnv = ProductionEnv
  /\ txtRecords \in SUBSET {[name |-> d, owner |-> 0, challenge |-> 0] : d \in Identifiers}
  /\ \E urls \in ChallengeUrls, count \in Identifiers :
       challenges = [r \in RenewalIds |->
                       IF r \in running
                         THEN [NoChallengeLoop EXCEPT
                                 !.pc = "cleanupTxtRecords", !.index = 1,
                                 !.count = count, !.url = urls]
                         ELSE NoChallengeLoop]

\* One renewal.
InitChallenges == InitZone({1})

\* Two renewals of connections with the same FQDN.
InitSharedFqdn == InitZone({1, 2})

NextChallenges ==
  \E r \in RenewalIds :
    \/ cleanupTxtRecords(r)
    \/ createTxtRecord(r)
    \/ finalizeCertificate(r)
    \/ deleteTxtRecord(r)

NextUpload ==
  \/ uploadLeafCertificate
  \/ uploadCertificateToCUCM
  \/ getExistingTrustCertificates
  \/ uploadCaCertificates
  \/ trustCertificatesPosted
  \/ performRenewalAfterUpload

Next ==
  \/ \E c \in ConnIds : renewCertificate(c)
  \/ \E r \in RenewalIds :
       \/ renewCertificateResume(r)
       \/ getConnectionById(r)
       \/ getExistingCertificate(r)
       \/ reuseExistingCertificate(r)
       \/ generateCSR(r)
       \/ requestCertificate(r)
       \/ loadAccount(r)
       \/ createOrder(r)
       \/ createDnsRecords(r)
       \/ verifyDnsPropagation(r)
       \/ completeValidation(r)
       \/ downloadCertificate(r)
       \/ installCertificate(r)
       \/ restartService(r)
       \/ setEndTime(r)
       \/ updateDatabaseWithRenewal(r)
       \/ finallyCallback(r)

\* The service together with callers that cancel renewals.
NextCancellable ==
  \/ Next
  \/ \E r \in RenewalIds : CancelRenewal(r)

\* The service together with restarts of its process.
NextRestart ==
  \/ Next
  \/ ProcessRestart
  \/ \E r \in RenewalIds : getRenewalStatus(r)

Spec == Init /\ [][Next]_vars

SpecCancellable == Init /\ [][NextCancellable]_vars

SpecRestart == Init /\ [][NextRestart]_vars

SpecAccepting == InitAccepting /\ [][Next]_vars

SpecConcurrent == InitConcurrent /\ [][Next]_vars

SpecProviders == InitProviders /\ [][Next]_vars

SpecUpload == InitUpload /\ [][NextUpload]_vars

SpecStored == InitStored /\ [][NextStored]_vars

SpecChallenges == InitChallenges /\ [][NextChallenges]_vars

SpecSharedFqdn == InitSharedFqdn /\ [][NextChallenges]_vars

----------------------------------------------------------------------------
\* Vocabulary of the properties.

ConnectionOf(r) == renewalStatuses[r].connectionId

NonTerminalOf(c) == {r \in RenewalIds : NonTerminal(r) /\ ConnectionOf(r) = c}

\* The call or task of r still has code to run.
Unfinished(r) == pc[r] \notin {"unused", "rejected", "done", "gone"}

\* This step is a renewCertificate(c) call: one rejected with AlreadyActive,
\* or one that creates a RenewalStatus.
CallOf(c) ==
  \/ lastCall'.connectionId = c
  \/ \E r \in RenewalIds :
       /\ ~Exists(r)
       /\ renewalStatuses'[r].id # 0
       /\ renewalStatuses'[r].connectionId = c

\* The state-to-progress table of the specification.
MappedProgress(status) ==
  CASE status = "pending" -> 0
    [] status = "generating_csr" -> 10
    [] status = "creating_account" -> 15
    [] status = "requesting_certificate" -> 20
    [] status = "creating_dns_challenge" -> 30
    [] status = "waiting_dns_propagation" -> 50
    [] status = "waiting_manual_dns" -> 65
    [] status = "completing_validation" -> 70
    [] status = "downloading_certificate" -> 80
    [] status = "uploading_certificate" -> 90
    [] status = "completed" -> 100
    [] status = "failed" -> 0

\* The order of the states on the happy path of a fresh issuance.
HappyPath ==
  <<"pending", "generating_csr", "creating_account", "requesting_certificate",
    "creating_dns_challenge", "waiting_dns_propagation", "completing_validation",
    "downloading_certificate", "uploading_certificate", "completed">>

Rank(status) == CHOOSE i \in 1..Len(HappyPath) : HappyPath[i] = status

OnHappyPath(status) == \E i \in 1..Len(HappyPath) : HappyPath[i] = status

----------------------------------------------------------------------------
\* C1. Single-flight: in every reachable state every connection id has at most
\* one RenewalStatus whose state is neither completed nor failed.
C1_SingleFlight ==
  \A c \in ConnIds : Cardinality(NonTerminalOf(c)) <= 1

\* C2. A renewCertificate call for a connection that has a non-terminal
\* RenewalStatus is rejected with AlreadyActive and changes neither the status
\* map, nor the active set, nor the store.
C2_RejectedWhileNonTerminal ==
  [][\A c \in ConnIds :
       (NonTerminalOf(c) # {} /\ CallOf(c)) =>
         /\ lastCall' = [connectionId |-> c, result |-> AlreadyActive]
         /\ UNCHANGED <<renewalStatuses, activeRenewals, dbRenewalStatus>>]_vars

\* C3. A removal from the active set made on behalf of one renewal (a step of
\* its task or of its callbacks) never removes the entry of a connection for
\* which another renewal is still unfinished: the entry is removed once, by
\* the renewal that owns it.
C3_RemovesOwnEntryOnly ==
  [][\A r \in RenewalIds :
       (/\ pc'[r] # pc[r]
        /\ Exists(r)
        /\ ConnectionOf(r) \in activeRenewals
        /\ ConnectionOf(r) \notin activeRenewals')
       => \A q \in RenewalIds \ {r} :
            ~(Exists(q) /\ ConnectionOf(q) = ConnectionOf(r) /\ Unfinished(q))]_vars

\* C4. Every entry of the active set is one that will be removed: a renewal
\* of that connection still has its cleanup to run, whatever the outcome of
\* its steps and of its saves.
C4_ActiveEntryIsReleased ==
  \A c \in activeRenewals :
    \E r \in RenewalIds : Exists(r) /\ ConnectionOf(r) = c /\ Unfinished(r)

\* C5. Once a RenewalStatus is completed or failed, its state, message,
\* progress, error and logs never change: no later step turns a completed
\* record into a failed one.
C5_TerminalImmutable ==
  [][\A r \in RenewalIds :
       (Exists(r) /\ renewalStatuses[r].status \in Terminal) =>
         /\ renewalStatuses'[r].status = renewalStatuses[r].status
         /\ renewalStatuses'[r].message = renewalStatuses[r].message
         /\ renewalStatuses'[r].progress = renewalStatuses[r].progress
         /\ renewalStatuses'[r].error = renewalStatuses[r].error
         /\ renewalStatuses'[r].logs = renewalStatuses[r].logs]_vars

\* C6. In every state of every RenewalStatus of the status map, endTime is set
\* if and only if the state is completed or failed.
C6_EndTimeIffTerminal ==
  \A r \in RenewalIds :
    Exists(r) => (renewalStatuses[r].endTime <=> renewalStatuses[r].status \in Terminal)

\* C7. The progress of a RenewalStatus never decreases from one update to the
\* next while its state is non-terminal, on every path of the renewal.
C7_ProgressNonDecreasing ==
  [][\A r \in RenewalIds :
       (NonTerminal(r) /\ renewalStatuses'[r].status # "failed") =>
         renewalStatuses'[r].progress >= renewalStatuses[r].progress]_vars

\* A renewal that went through the updates of a fresh issuance and stands at
\* the progress of the service restart.
C7_Witness ==
  \E r \in RenewalIds :
    /\ NonTerminal(r)
    /\ ~existingCert[r]
    /\ renewalStatuses[r].progress = 95
    /\ Len(renewalStatuses[r].logs) >= 9

\* C8. A terminal RenewalStatus has the progress of the table: completed 100,
\* failed 0.
C8_TerminalProgress ==
  \A r \in RenewalIds :
    Exists(r) =>
      /\ renewalStatuses[r].status = "completed" => renewalStatuses[r].progress = 100
      /\ renewalStatuses[r].status = "failed" => renewalStatuses[r].progress = 0

\* C9. Every live update writes the progress the table gives for its state, so
\* no state is reported with two progress values.
C9_ProgressFollowsTable ==
  \A r \in RenewalIds :
    (Exists(r) /\ renewalStatuses[r].status # "failed") =>
      renewalStatuses[r].progress = MappedProgress(renewalStatuses[r].status)

\* C10. On a fresh issuance the state only moves forward in the order pending,
\* generating_csr, creating_account, requesting_certificate,
\* creating_dns_challenge, waiting_dns_propagation, completing_validation,
\* downloading_certificate, uploading_certificate, completed.
C10_StateMovesForward ==
  [][\A r \in RenewalIds :
       (/\ Exists(r)
        /\ ~existingCert[r]
        /\ OnHappyPath(renewalStatuses[r].status)
        /\ OnHappyPath(renewalStatuses'[r].status))
       => Rank(renewalStatuses'[r].status) >= Rank(renewalStatuses[r].status)]_vars

\* The step raises an error into the catch block of performRenewal of r: the
\* record's error is set by it.
ErrorRaised(r) ==
  /\ renewalStatuses'[r].id # 0
  /\ renewalStatuses'[r].error # ""
  /\ (Exists(r) => renewalStatuses[r].error = "")

\* C11. An error raised by a step of performRenewal leaves the RenewalStatus
\* failed, with error set to the error's message, an 'ERROR: <message>' line
\* appended to the logs and endTime set; a record with an error stays failed
\* with that error and never becomes completed.
C11_ErrorMakesFailed ==
  [][\A r \in RenewalIds :
       /\ ErrorRaised(r) =>
            /\ renewalStatuses'[r].status = "failed"
            /\ renewalStatuses'[r].endTime
            /\ Len(renewalStatuses'[r].logs) > Len(renewalStatuses[r].logs)
            /\ renewalStatuses'[r].logs[Len(renewalStatuses'[r].logs)]
                 = "ERROR: " \o renewalStatuses'[r].error
       /\ (Exists(r) /\ renewalStatuses[r].error # "") =>
            /\ renewalStatuses'[r].status = "failed"
            /\ renewalStatuses'[r].error = renewalStatuses[r].error]_vars

\* A renewal that failed late in a fresh issuance, its cleanup done.
C11_Witness ==
  \E r \in RenewalIds :
    /\ Exists(r)
    /\ renewalStatuses[r].status = "failed"
    /\ renewalStatuses[r].error = "Validation failed"
    /\ pc[r] = "done"

\* The row of renewal r in the status store agrees with its record in memory.
StoreAgrees(r) ==
  /\ dbRenewalStatus[r].status = renewalStatuses[r].status
  /\ dbRenewalStatus[r].error = renewalStatuses[r].error

\* C12. With a status store that accepts every write, once a renewal has
\* finished the persisted row carries the terminal state of the record in
\* memory: a failed renewal is persisted as failed with its error.
C12_StoreAgreesOnTerminal ==
  \A r \in RenewalIds :
    (Exists(r) /\ pc[r] = "done") => StoreAgrees(r)

\* C13. A rejected status save never stops a renewal: every RenewalStatus that
\* is not terminal has a call or task that still has code to run, so the
\* first save of renewCertificate failing leaves no record stuck in pending.
C13_SaveFailureDoesNotAbort ==
  \A r \in RenewalIds : NonTerminal(r) => Unfinished(r)

\* C14. renewCertificate for a connection id the config store does not hold
\* creates no RenewalStatus and no active-set entry.
C14_UnknownConnectionCreatesNothing ==
  /\ \A r \in RenewalIds : Exists(r) => ConnectionOf(r) \in KnownConnIds
  /\ activeRenewals \subseteq KnownConnIds

\* C15. Once CancelRenewal has been issued for a renewal that is not terminal,
\* the renewal never becomes completed: its task observes the cancellation at
\* the next await and fails.
C15_CancelledNeverCompletes ==
  [][\A r \in RenewalIds :
       (Exists(r) /\ cancelRequested[r] /\ renewalStatuses[r].status # "completed")
         => renewalStatuses'[r].status # "completed"]_vars

TxtRecordLeft(r) == "dns_create" \in effects[r] /\ "dns_delete" \notin effects[r]

\* C17. Once a renewal that created DNS TXT records is terminal and its task
\* has ended, none of its records is left at the provider, unless the process
\* runs in staging and LETSENCRYPT_CLEANUP_DNS is not 'true'.
C17_TxtRecordsCleanedUp ==
  \A r \in RenewalIds :
    (/\ Exists(r)
     /\ pc[r] = "done"
     /\ ~(isStaging /\ processEnv.LETSENCRYPT_CLEANUP_DNS # "true"))
    => ~TxtRecordLeft(r)

\* C18. A renewal that finds a reusable certificate makes no call to the
\* authority, changes nothing at the DNS provider and writes no CSR, key or
\* certificate file.
C18_ReuseChangesNothing ==
  [][\A r \in RenewalIds :
       (existingCert[r] \/ existingCert'[r]) => effects'[r] = {}]_vars

\* A renewal that reused the stored certificate and has completed.
C18_Witness ==
  \E r \in RenewalIds :
    /\ existingCert[r]
    /\ connection[r].application_type = "general"
    /\ renewalStatuses[r].status = "completed"
    /\ effects[r] = {}

PropagationErrors ==
  {"DNS propagation verification failed", "DNS propagation failed"}

\* What a renewal does only after the propagation of its records is verified:
\* completing the challenges, finalizing the order, writing the certificate
\* files.
AfterPropagation ==
  {"acme_challenge", "acme_finalize"} \cup saveCertificate \cup chainFiles

\* The log lines of a positive propagation verification.
PropagationVerified == {"DNS propagation verified", "CNAME record verified"}

\* C20. A renewal whose propagation verification answered false is failed, has
\* completed no challenge at the authority, has not finalized the order and
\* has written no certificate file: those happen only in a renewal whose
\* verification answered true.
C20_PropagationFailureIsFatal ==
  \A r \in RenewalIds :
    Exists(r) =>
      /\ renewalStatuses[r].error \in PropagationErrors =>
           /\ renewalStatuses[r].status = "failed"
           /\ effects[r] \cap AfterPropagation = {}
      /\ effects[r] \cap AfterPropagation # {} =>
           \E i \in 1..Len(renewalStatuses[r].logs) :
             renewalStatuses[r].logs[i] \in PropagationVerified

\* A renewal failed by a negative propagation verification, its task ended.
C20_Witness ==
  \E r \in RenewalIds :
    /\ Exists(r)
    /\ renewalStatuses[r].error \in PropagationErrors
    /\ pc[r] = "done"

----------------------------------------------------------------------------
\* The renewal runs for a connection whose dns_provider is p.
ProviderOf(r, p) == connection[r] # NoConnection /\ connection[r].dns_provider = p

\* This step brings the renewal into `status`.
Enters(r, status) ==
  /\ renewalStatuses'[r].id # 0
  /\ renewalStatuses'[r].status = status
  /\ (Exists(r) => renewalStatuses[r].status # status)

\* C21. A renewal of a connection with dns_provider custom enters
\* completing_validation only from waiting_manual_dns, with the manual DNS
\* entry of its record set.
C21_CustomWaitsForManualDns ==
  [][\A r \in RenewalIds :
       (ProviderOf(r, "custom") /\ Enters(r, "completing_validation"))
         => /\ renewalStatuses[r].status = "waiting_manual_dns"
            /\ renewalStatuses[r].manualDNSEntry]_vars

\* C22. Every call a renewal makes to a DNS provider's adapter goes to the
\* adapter of the provider its connection names in dns_provider.
C22_ConfiguredAdapterOnly ==
  [][\A r \in RenewalIds :
       (connection[r] # NoConnection /\ effects'[r] \cap DnsCalls # effects[r] \cap DnsCalls)
         => dnsAdapter'[r] = connection[r].dns_provider]_vars

\* The log lines of a service restart that failed: the SSH connection test
\* failed, the restart command failed, the SSH client threw.
RestartFailures ==
  {"Warning: SSH connection failed", "Failed to restart Cisco Tomcat service",
   "Error during service restart"}

Logged(r, lines) ==
  \E i \in 1..Len(renewalStatuses[r].logs) : renewalStatuses[r].logs[i] \in lines

\* C23. The step that ends the service restart, failed or not, leaves the
\* renewal completed with no error, and a failure as one more line of its
\* logs before the line of the 'completed' update.
C23_RestartFailureNotFatal ==
  [][\A r \in RenewalIds :
       (pc[r] = "restart" /\ pc'[r] # "restart")
         => /\ renewalStatuses'[r].status = "completed"
            /\ renewalStatuses'[r].error = ""
            /\ \E line \in RestartFailures \cup {"Cisco Tomcat service restarted successfully"} :
                 renewalStatuses'[r].logs =
                   renewalStatuses[r].logs
                     \o <<line, "Certificate renewal completed successfully">>]_vars

\* A renewal whose service restart failed has completed.
C23_Witness ==
  \E r \in RenewalIds :
    /\ Exists(r)
    /\ renewalStatuses[r].status = "completed"
    /\ Logged(r, RestartFailures)

\* The certificate is among those the device listed, white space at the ends
\* of either text aside.
OnDevice(c) ==
  \E i \in 1..Len(trustUpload.response.certificates) :
    trim(trustUpload.response.certificates[i]) = trim(c)

\* The upload has come to the end of uploadCaCertificates' filter or did not
\* need it.
Filtered == trustUpload.pc \in {"posted", "resolved", "rejected"}

\* C24. When the device lists its trust certificates, the body posted holds
\* exactly the CA certificates of the chain that are not on the device, in the
\* chain's order, and nothing is posted when all of them are.
C24_UploadOmitsCertsOnDevice ==
  (Filtered /\ trustUpload.response.kind = "200")
    => /\ trustUpload.posted
            => trustUpload.certsToUpload =
                 SelectSeq(trustUpload.certificates, LAMBDA c : ~OnDevice(c))
       /\ trustUpload.posted
            <=> \E i \in 1..Len(trustUpload.certificates) :
                  ~OnDevice(trustUpload.certificates[i])

\* A chain of which one CA certificate was posted and one left out that the
\* device lists with white space around it.
C24_Witness ==
  /\ trustUpload.response.kind = "200"
  /\ trustUpload.posted
  /\ Len(trustUpload.certsToUpload) = 1
  /\ \E i \in 1..Len(trustUpload.certificates) :
       /\ OnDevice(trustUpload.certificates[i])
       /\ \A j \in 1..Len(trustUpload.response.certificates) :
            trustUpload.response.certificates[j] # trustUpload.certificates[i]

\* The GET of the device's trust certificates failed.
ListFailed == trustUpload.response.kind # "200"

\* C25. When the list of the device's trust certificates cannot be had, the
\* upload goes on as if the list were empty: every CA certificate of the chain
\* is posted.
C25_ListFailureUploadsAll ==
  (Filtered /\ ListFailed /\ Len(trustUpload.certificates) > 0)
    => /\ trustUpload.existingCerts = <<>>
       /\ trustUpload.posted
       /\ trustUpload.certsToUpload = trustUpload.certificates

\* An upload that resolved after the list could not be had.
C25_Witness ==
  /\ ListFailed
  /\ trustUpload.pc = "resolved"
  /\ trustUpload.posted
  /\ Len(trustUpload.certificates) = MaxCaCerts

\* The authority has issued the renewal's certificate and the renewal has it.
Issued(r) == "acme_finalize" \in effects[r]

\* The renewal has written the file of that name for its domain.
Written(r, name) ==
  DomainDirFile(name) \in effects[r] \/ EnvDirFile(name) \in effects[r]

\* C26. A renewal whose certificate was issued, by whichever authority, and
\* that is in uploading_certificate or completed has written certificate.pem,
\* chain.pem and fullchain.pem.
C26_CertificateFilesWritten ==
  \A r \in RenewalIds :
    (/\ Exists(r)
     /\ renewalStatuses[r].status \in {"uploading_certificate", "completed"}
     /\ Issued(r))
    => \A name \in {"certificate.pem", "chain.pem", "fullchain.pem"} : Written(r, name)

\* C27. The chain.pem and fullchain.pem a renewal writes are those of the
\* environment directory, and its fullchain.pem is a file the reusability
\* check reads.
C27_ChainFilesInEnvDir ==
  \A r \in RenewalIds :
    /\ \A name \in {"chain.pem", "fullchain.pem"} :
         Written(r, name)
           => EnvDirFile(name) \in effects[r] /\ DomainDirFile(name) \notin effects[r]
    /\ Written(r, "fullchain.pem")
         => \E file \in existingCertificateFiles \cap effects[r] :
              file = EnvDirFile("fullchain.pem")

\* The custom_csr of the renewal's connection held a private key block.
KeySupplied(r) == Logged(r, {"Private key found and saved"})

\* C28. A completed renewal of a general connection whose certificate was
\* issued has made the <fqdn>.crt copy, and has made the <fqdn>.key copy and
\* written private_key.pem exactly when custom_csr held a private key block.
C28_ConvenienceCopies ==
  \A r \in RenewalIds :
    (/\ Exists(r)
     /\ renewalStatuses[r].status = "completed"
     /\ connection[r].application_type = "general"
     /\ Issued(r))
    => /\ EnvDirFile("<fqdn>.crt") \in effects[r]
       /\ EnvDirFile("<fqdn>.key") \in effects[r] <=> KeySupplied(r)
       /\ Written(r, "private_key.pem") <=> KeySupplied(r)

\* C29. The DNS record ids kept for cleanup are those of renewals still
\* running: none is left behind by a renewal whose task has ended.
C29_RecordIdsScopedToRenewal ==
  \A i \in 1..Len(dnsRecordIds) : Unfinished(dnsRecordIds[i])

\* The store holds a row of the renewal.
Stored(r) == dbRenewalStatus[r].status # "none"

MappedStates == RenewalStates \ {"dns_validation"}

RecordOf(r, i) == [name |-> i, owner |-> r, challenge |-> i]

\* C32. When the loop that sets up the DNS challenges of a renewal has ended,
\* every identifier of the order has the TXT record of its own challenge.
C32_EveryIdentifierHasItsRecord ==
  \A r \in RenewalIds :
    challenges[r].pc = "waiting_dns_propagation"
      => \A i \in 1..challenges[r].count : RecordOf(r, i) \in txtRecords

\* The renewal is setting up its challenges or waiting for their validation:
\* its records are in use.
UsesRecords(r) ==
  challenges[r].pc \in {"cleanupTxtRecords", "createTxtRecord", "waiting_dns_propagation"}

\* C40. A step of one renewal never deletes a TXT record made by another
\* renewal that is still using it.
C40_PurgeSparesOtherRenewals ==
  [][\A r \in RenewalIds :
       challenges'[r] # challenges[r]
         => \A rec \in txtRecords :
              (rec.owner \notin {0, r} /\ UsesRecords(rec.owner))
                => rec \in txtRecords']_vars

\* The log lines and the update of the service restart.
RestartLines ==
  RestartFailures \cup
    {"Restarting Cisco Tomcat service", "Restarting Cisco Tomcat service via SSH",
     "Cisco Tomcat service restarted successfully"}

\* The connection of the renewal has enable_ssh and auto_restart_service set.
RestartEnabled(r) == connection[r].enable_ssh /\ connection[r].auto_restart_service

\* C33. A renewal is at the SSH calls of the service restart, or has a line
\* or a status update of the restart in its logs, only if its connection has
\* enable_ssh and auto_restart_service set.
C33_SshOnlyWhenEnabled ==
  \A r \in RenewalIds :
    (/\ Exists(r)
     /\ connection[r] # NoConnection
     /\ pc[r] = "restart" \/ Logged(r, RestartLines))
    => RestartEnabled(r)

\* A renewal of a connection without enable_ssh has completed.
C33_Witness ==
  \E r \in RenewalIds :
    /\ Exists(r)
    /\ connection[r] # NoConnection
    /\ ~connection[r].enable_ssh
    /\ connection[r].auto_restart_service
    /\ renewalStatuses[r].status = "completed"

\* This step is the CSR step of a renewal of a vos connection.
CsrStepOfVos(r) ==
  /\ pc[r] = "generating_csr"
  /\ pc'[r] # "generating_csr"
  /\ connection[r].application_type = "vos"

LoggedNext(r, lines) ==
  \E i \in 1..Len(renewalStatuses'[r].logs) : renewalStatuses'[r].logs[i] \in lines

AccountErrors ==
  {"Let's Encrypt email not configured in settings",
   "Failed to create Let's Encrypt account"}

RecordsCreated(r) == effects[r] \cap {"dns_create", "dns_create_cname"} # {}

\* C36. A renewal completes its challenges only in completing_validation,
\* with its DNS records created and their propagation verified; it finalizes
\* its order only after the order was polled valid; and an order polled
\* invalid leaves it failed, with nothing finalized.
C36_ValidationInOrder ==
  [][\A r \in RenewalIds :
       /\ "acme_challenge" \in effects'[r] \ effects[r]
            => /\ renewalStatuses[r].status = "completing_validation"
               /\ RecordsCreated(r)
               /\ Logged(r, PropagationVerified)
       /\ "acme_finalize" \in effects'[r] \ effects[r]
            => {"acme_challenge", "acme_order_valid"} \subseteq effects[r]
       /\ (renewalStatuses'[r].id # 0 /\ renewalStatuses'[r].error = "Order is invalid")
            => /\ renewalStatuses'[r].status = "failed"
               /\ "acme_finalize" \notin effects'[r]]_vars

\* A renewal whose order was polled invalid has failed.
C36_Witness ==
  \E r \in RenewalIds :
    /\ Exists(r)
    /\ renewalStatuses[r].error = "Order is invalid"
    /\ "acme_challenge" \in effects[r]

\* The errors of saveCertificateFiles.
PersistErrors == {"No certificates found in response", "Certificate file write failed"}

\* C37. The certificate files are written before the DNS records are
\* deleted: a renewal that failed while writing them has deleted no record.
C37_PersistBeforeCleanup ==
  \A r \in RenewalIds :
    (Exists(r) /\ renewalStatuses[r].error \in PersistErrors)
      => "dns_delete" \notin effects[r]

\* C38. A step of the clean-up never ends the renewal, whether the deletion
\* failed or not: it goes to the next record and, after the last record, with
\* a deletion attempted for every record, to saving the certificate.
C38_CleanupFailureNotFatal ==
  [][\A r \in RenewalIds :
       (challenges[r].pc = "deleteTxtRecord" /\ challenges'[r] # challenges[r])
         => /\ challenges'[r].pc \in {"deleteTxtRecord", "saveCertificateFiles"}
            /\ challenges'[r].attempts = challenges[r].attempts + 1
            /\ challenges'[r].pc = "saveCertificateFiles"
                 <=> challenges'[r].attempts = Len(challenges[r].dnsRecords)]_vars

\* A renewal goes on to save its certificate with the first of its two
\* records still at the provider and the second deleted.
C38_Witness ==
  \E r \in RenewalIds :
    /\ challenges[r].pc = "saveCertificateFiles"
    /\ Len(challenges[r].dnsRecords) = 2
    /\ challenges[r].dnsRecords[1] \in txtRecords
    /\ challenges[r].dnsRecords[2] \notin txtRecords

\* C39. The renewal is completed only with the identity certificate uploaded
\* (200 or 201) and, if trust certificates were posted, those uploaded too
\* (200 or 201); trust certificates are posted only after the identity
\* certificate was uploaded; and an identity upload answered otherwise posts
\* no trust certificate and leaves the renewal uncompleted, failed once the
\* rejection is caught.
C39_CompletedOnlyAfterUploads ==
  /\ trustUpload.status = "completed"
       => /\ trustUpload.leaf \in Uploaded
          /\ trustUpload.posted => trustUpload.trust \in Uploaded
  /\ trustUpload.posted => trustUpload.leaf \in Uploaded
  /\ trustUpload.leaf \notin Uploaded \cup {0}
       => /\ ~trustUpload.posted
          /\ trustUpload.trust = 0
          /\ trustUpload.pc = "leaf_rejected"
          /\ trustUpload.status \in {"uploading_certificate", "failed"}
  /\ (trustUpload.status = "failed") <=>
       (trustUpload.status # "uploading_certificate" /\ trustUpload.pc # "resolved")

\* A renewal completed after both uploads were answered 200 or 201.
C39_Witness ==
  /\ trustUpload.status = "completed"
  /\ trustUpload.leaf = 200
  /\ trustUpload.posted
  /\ trustUpload.trust = 201

=============================================================================
